---- MODULE Spec2Model ----
(***************************************************************************)
(* Model of the agent-coordination server of the scheduler                 *)
(* (scheduler/pkg/agent/server.go): the registry of subscribed server      *)
(* replicas, the Sync reconciliation pass, the AgentEvent status report    *)
(* and the Subscribe connection handler.                                   *)
(***************************************************************************)
EXTENDS Integers, Sequences, FiniteSets, TLC

(***************************************************************************)
(* Bounds of the model.                                                    *)
(***************************************************************************)
\* inputs of the environment in one run: events published, Subscribe calls,
\* placement decisions of the scheduler, re-delivered reports
MaxInputs == 4

\* the Sync goroutines (one per model event) and the Subscribe handlers
Tasks == {1, 2}
Handlers == {1, 2}

\* capacity of the channel s.source
SourceCap == 1

(***************************************************************************)
(* Data.                                                                   *)
(***************************************************************************)
None == "None"

\* store.ModelReplicaState
ReplicaStates ==
  {"Unknown", "LoadRequested", "Loading", "Loaded", "LoadFailed",
   "UnloadRequested", "Unloading", "Unloaded"}

\* pb.ModelEventMessage_Event
EventKinds ==
  {"UNKNOWN_EVENT", "LOAD_FAIL_MEMORY", "LOADED", "LOAD_FAILED", "UNLOADED",
   "UNLOAD_FAILED"}

\* the model the store holds, and a name it does not hold
ModelNames == {"iris"}
EventNames == {"iris", "ghost"}

\* a model of the store whose placement is not followed here: a replica may
\* or may not hold it
OtherModels == {"wine"}

\* the versions of the model, oldest first; all are placed on one server
Versions == {1, 2}
ServerName == "serverA"
ReplicaIdxs == {0, 1}

ServerKey(name, idx) == [serverName |-> name, replicaIdx |-> idx]
Keys == {ServerKey(ServerName, r) : r \in ReplicaIdxs}

SetMin(S) == CHOOSE x \in S : \A y \in S : x <= y
SetMax(S) == CHOOSE x \in S : \A y \in S : x >= y
Range(s) == {s[i] : i \in 1..Len(s)}

\* a Go map: m[k] = v and delete(m, k)
MapPut(m, k, v) == [x \in DOMAIN m \cup {k} |-> IF x = k THEN v ELSE m[x]]
MapDelete(m, k) == [x \in DOMAIN m \ {k} |-> m[x]]

VARIABLES
  mutext,     \* s.mutext: the readers holding it, the writers waiting in Lock()
  agents,     \* s.agents: ServerKey -> the handler whose AgentSubscriber it holds
  store,      \* s.store: replica state of every version of the model
  replicas,   \* s.store: the server replicas AddServerReplica registered
  source,     \* s.source: the channel of model events
  sync,       \* the Sync goroutines: position and locals
  sub,        \* the Subscribe handlers: position, request and locals
  stream,     \* per handler, the commands sent on its stream and not yet answered
  resp,       \* the last AgentEvent call: its message and what it returned
  env,        \* counters of the environment's inputs
  pipelines,  \* PipelineSubscriber.pipelines: PipelineId -> PipelineTopology
  retries,    \* subscribe's local counter of caught StatusExceptions
  running,    \* the Transformer objects started and not stopped
  reported,   \* the last message passed to client.pipelineUpdateEvent
  subscriber  \* subscribe's position, and the update it handled last

avars == <<mutext, agents, store, replicas, source, sync, sub, stream, resp, env>>
pvars == <<pipelines, retries, running, reported, subscriber>>
vars == <<mutext, agents, store, replicas, source, sync, sub, stream, resp, env,
          pipelines, retries, running, reported, subscriber>>

(***************************************************************************)
(* The store (scheduler/pkg/store, used through s.store).                  *)
(***************************************************************************)
\* model.GetLatest(): the last version
GetLatest == SetMax(Versions)

\* modelVersion.GetReplicaForState(state)
GetReplicaForState(st, ver, state) == {r \in ReplicaIdxs : st[ver][r] = state}

\* store.GetModel(name): the model, or nil
GetModel(name) == IF name \in ModelNames THEN name ELSE None

\* store.UpdateModelState(key, version, server, replicaIdx, mem, state, msg),
\* when it returns no error
UpdateModelState(st, ver, idx, state) == [st EXCEPT ![ver][idx] = state]

\* Replica indexes are interchangeable: the first input that names one (a
\* Subscribe or a placement decision) names the lowest.
FirstReplica(idx) ==
  (/\ \A h \in Handlers : sub[h].pc = "idle"
   /\ \A v \in Versions, r \in ReplicaIdxs : store[v][r] = None)
  => idx = SetMin(ReplicaIdxs)

\* one more input of the environment
Input == /\ env.inputs < MaxInputs
         /\ env' = [env EXCEPT !.inputs = @ + 1]

(***************************************************************************)
(* Sync (server.go 85-153).                                                *)
(***************************************************************************)
NoTask ==
  [pc |-> "idle", modelName |-> None, items |-> {}, todo |-> {}, cur |-> None,
   as |-> 0, sent |-> FALSE, log |-> <<>>]

Item(op, ver, idx) == [op |-> op, ver |-> ver, idx |-> idx]

\* variant: Sync writes the state the replica would report
SyncStateReported(op) == IF op = "LOAD_MODEL" THEN "Loaded" ELSE "Unloaded"

\* the state Sync writes after a command was sent
SyncState(op) == IF op = "LOAD_MODEL" THEN "Loading" ELSE "Unloading"

\* variant: load commands are sent for every version
LoadVersionsAll == Versions

\* latestModel := model.GetLatest(): the versions load commands are sent for
LoadVersions == {GetLatest}

\* for _, modelVersion := range model.Versions: the versions unload commands
\* are sent for
UnloadVersions == Versions

\* variant: the loops also visit the replicas that were sent their command
SyncItemsResend(st) ==
  {i \in {Item("LOAD_MODEL", v, r) : v \in LoadVersions, r \in ReplicaIdxs} :
     st[i.ver][i.idx] \in {"LoadRequested", "Loading"}}
  \cup
  {i \in {Item("UNLOAD_MODEL", v, r) : v \in UnloadVersions, r \in ReplicaIdxs} :
     st[i.ver][i.idx] \in {"UnloadRequested", "Unloading"}}

\* the replicas the two loops of Sync visit in the model GetModel returned
SyncItems(st) ==
  {i \in {Item("LOAD_MODEL", v, r) : v \in LoadVersions, r \in ReplicaIdxs} :
     i.idx \in GetReplicaForState(st, i.ver, "LoadRequested")}
  \cup
  {i \in {Item("UNLOAD_MODEL", v, r) : v \in UnloadVersions, r \in ReplicaIdxs} :
     i.idx \in GetReplicaForState(st, i.ver, "UnloadRequested")}

\* the order of the loops: loads first, then the unloads version by version
Before(i, j) ==
  \/ i.op = "LOAD_MODEL" /\ j.op = "UNLOAD_MODEL"
  \/ i.op = j.op /\ i.ver < j.ver

\* variant: the key is built with a fixed replica index
AgentKeyFixedIdx(item) == ServerKey(ServerName, SetMin(ReplicaIdxs))

\* ServerKey{serverName: modelVersion.Server(), replicaIdx: uint32(replicaIdx)}
AgentKey(item) == ServerKey(ServerName, item.idx)

\* what pass t did for a replica, added to what the pass did so far: the
\* stream it called Send on (0: none), whether Send returned nil, how the
\* iteration ended, the state it stored
Logged(t, item, as, out, state) ==
  Append(sync[t].log, [item |-> item, as |-> as, sent |-> sync[t].sent,
                       out |-> out, state |-> state])

\* s.mutext.RLock() waits while a writer holds the lock or waits for it
RLock(t) ==
  /\ mutext.pending = {}
  /\ mutext' = [mutext EXCEPT !.readers = @ \cup {t}]

\* the deferred s.mutext.RUnlock() of a returning Sync
RUnlock(t) == mutext' = [mutext EXCEPT !.readers = @ \ {t}]

\* variant: the loops start whether or not GetModel returned a model
SyncGetModelNoCheck(t) ==
  /\ sync[t].pc = "start"
  /\ RLock(t)
  /\ sync' = [sync EXCEPT ![t].pc = "loop", ![t].todo = SyncItems(store),
                          ![t].items = SyncItems(store)]
  /\ UNCHANGED <<agents, store, replicas, source, sub, stream, resp, env, pvars>>

\* go s.Sync(modelName) has started: RLock, then s.store.GetModel(modelName);
\* an error or no model returns; else the loops start over the model
SyncGetModel(t) ==
  /\ sync[t].pc = "start"
  /\ RLock(t)
  /\ \E err \in BOOLEAN :
       IF err \/ GetModel(sync[t].modelName) = None
       THEN sync' = [sync EXCEPT ![t].pc = "loop"]
       ELSE sync' = [sync EXCEPT ![t].pc = "loop", ![t].todo = SyncItems(store),
                                 ![t].items = SyncItems(store)]
  /\ UNCHANGED <<agents, store, replicas, source, sub, stream, resp, env, pvars>>

\* variant: a replica with no record is not skipped: its state is updated
SyncNextNoContinue(t) ==
  /\ sync[t].pc = "loop"
  /\ \E item \in sync[t].todo :
       LET key == AgentKey(item) IN
       /\ \A other \in sync[t].todo : ~Before(other, item)
       /\ IF key \notin DOMAIN agents
          THEN sync' = [sync EXCEPT ![t].todo = @ \ {item}, ![t].cur = item,
                                    ![t].as = 0, ![t].sent = FALSE,
                                    ![t].pc = "update"]
          ELSE sync' = [sync EXCEPT ![t].todo = @ \ {item}, ![t].cur = item,
                                    ![t].as = agents[key], ![t].sent = FALSE,
                                    ![t].pc = "send"]
  /\ UNCHANGED <<mutext, agents, store, replicas, source, sub, stream, resp, env, pvars>>

\* the head of either replica loop: the next replicaIdx and its lookup in
\* s.agents; `continue` when it has no record, else as.stream.Send is called
SyncNext(t) ==
  /\ sync[t].pc = "loop"
  /\ \E item \in sync[t].todo :
       LET key == AgentKey(item) IN
       /\ \A other \in sync[t].todo : ~Before(other, item)
       /\ IF key \notin DOMAIN agents
          THEN sync' = [sync EXCEPT ![t].todo = @ \ {item},
                                    ![t].log = Logged(t, item, 0, "skip", None)]
          ELSE sync' = [sync EXCEPT ![t].todo = @ \ {item}, ![t].cur = item,
                                    ![t].as = agents[key], ![t].sent = FALSE,
                                    ![t].pc = "send"]
  /\ UNCHANGED <<mutext, agents, store, replicas, source, sub, stream, resp, env, pvars>>

\* a stream carries messages while its handler's scope is alive
StreamOpen(h) == sub[h].pc \notin {"idle", "returned"}

\* the pb.ModelOperationMessage pass t sends (by: the pass it comes from)
Command(t) ==
  [op |-> sync[t].cur.op, model |-> sync[t].modelName,
   version |-> sync[t].cur.ver, by |-> t]

\* variant: a failed Send is logged and the state is updated all the same
SyncSendNoContinue(t) ==
  /\ sync[t].pc = "send"
  /\ \E ok \in BOOLEAN :
       /\ ok => StreamOpen(sync[t].as)
       /\ IF ok
          THEN /\ stream' = [stream EXCEPT ![sync[t].as] = Append(@, Command(t))]
               /\ sync' = [sync EXCEPT ![t].pc = "update", ![t].sent = TRUE]
          ELSE /\ stream' = stream
               /\ sync' = [sync EXCEPT ![t].pc = "update"]
  /\ UNCHANGED <<mutext, agents, store, replicas, source, sub, resp, env, pvars>>

\* err = as.stream.Send(...) returns: nil and the command is on the stream,
\* or an error and `continue`
SyncSend(t) ==
  /\ sync[t].pc = "send"
  /\ \E ok \in BOOLEAN :
       /\ ok => StreamOpen(sync[t].as)
       /\ IF ok
          THEN /\ stream' = [stream EXCEPT ![sync[t].as] = Append(@, Command(t))]
               /\ sync' = [sync EXCEPT ![t].pc = "update", ![t].sent = TRUE]
          ELSE /\ stream' = stream
               /\ sync' = [sync EXCEPT
                    ![t].pc = "loop",
                    ![t].log = Logged(t, sync[t].cur, sync[t].as, "sendfail", None)]
  /\ UNCHANGED <<mutext, agents, store, replicas, source, sub, resp, env, pvars>>

\* variant: a failed UpdateModelState ends the pass
SyncUpdateAbort(t) ==
  /\ sync[t].pc = "update"
  /\ \E ok \in BOOLEAN :
       LET item == sync[t].cur IN
       /\ store' = IF ok
                   THEN UpdateModelState(store, item.ver, item.idx,
                                         SyncState(item.op))
                   ELSE store
       /\ sync' = [sync EXCEPT
            ![t].pc = "loop", ![t].sent = FALSE,
            ![t].todo = IF ok THEN @ ELSE {},
            ![t].log = IF ok
                       THEN Logged(t, item, sync[t].as, "written", SyncState(item.op))
                       ELSE Logged(t, item, sync[t].as, "updfail", None)]
  /\ UNCHANGED <<mutext, agents, replicas, source, sub, stream, resp, env, pvars>>

\* err := s.store.UpdateModelState(..., store.Loading | store.Unloading, "")
SyncUpdate(t) ==
  /\ sync[t].pc = "update"
  /\ \E ok \in BOOLEAN :
       LET item == sync[t].cur IN
       /\ store' = IF ok
                   THEN UpdateModelState(store, item.ver, item.idx,
                                         SyncState(item.op))
                   ELSE store
       /\ sync' = [sync EXCEPT
            ![t].pc = "loop", ![t].sent = FALSE,
            ![t].log = IF ok
                       THEN Logged(t, item, sync[t].as, "written", SyncState(item.op))
                       ELSE Logged(t, item, sync[t].as, "updfail", None)]
  /\ UNCHANGED <<mutext, agents, replicas, source, sub, stream, resp, env, pvars>>

\* both loops are over, or GetModel gave no model: Sync returns, with the
\* deferred RUnlock; its locals are gone
SyncReturn(t) ==
  /\ sync[t].pc = "loop"
  /\ sync[t].todo = {}
  /\ RUnlock(t)
  /\ sync' = [sync EXCEPT ![t] = [NoTask EXCEPT !.pc = "done"]]
  /\ UNCHANGED <<agents, store, replicas, source, sub, stream, resp, env, pvars>>

(***************************************************************************)
(* ListenForSyncs (server.go 64-70) and the hub that feeds s.source.       *)
(***************************************************************************)
\* the hub publishes a model event to the listener's channel
Publish(name) ==
  /\ Len(source) < SourceCap
  /\ Len(source) < Cardinality({t \in Tasks : sync[t].pc = "idle"})
  /\ source' = Append(source, name)
  /\ Input
  /\ UNCHANGED <<mutext, agents, store, replicas, sync, sub, stream, resp, pvars>>

\* variant: the dispatcher calls Sync itself and takes the next event when
\* the pass has returned
ListenForSyncsSerial ==
  /\ source # <<>>
  /\ \A u \in Tasks : sync[u].pc \in {"idle", "done"}
  /\ \E t \in Tasks :
       /\ sync[t].pc = "idle"
       /\ \A u \in Tasks : sync[u].pc = "idle" => t <= u
       /\ sync' = [sync EXCEPT ![t].pc = "start", ![t].modelName = Head(source)]
  /\ source' = Tail(source)
  /\ UNCHANGED <<mutext, agents, store, replicas, sub, stream, resp, env, pvars>>

\* for evt := range s.source { go s.Sync(evt.ModelName) }
ListenForSyncs ==
  /\ source # <<>>
  /\ \E t \in Tasks :
       /\ sync[t].pc = "idle"
       /\ \A u \in Tasks : sync[u].pc = "idle" => t <= u
       /\ sync' = [sync EXCEPT ![t].pc = "start", ![t].modelName = Head(source)]
  /\ source' = Tail(source)
  /\ UNCHANGED <<mutext, agents, store, replicas, sub, stream, resp, env, pvars>>

(***************************************************************************)
(* AgentEvent (server.go 155-176) and the replica that calls it.           *)
(***************************************************************************)
\* variant: the switch has no case for LOADED
EventToStateNoLoaded(event) ==
  CASE event = "UNLOADED" -> "Unloaded"
    [] event \in {"LOAD_FAILED", "LOAD_FAIL_MEMORY"} -> "LoadFailed"
    [] OTHER -> "Unknown"

\* variant: the switch has no case for LOAD_FAIL_MEMORY
EventToStateNoMemory(event) ==
  CASE event = "LOADED" -> "Loaded"
    [] event = "UNLOADED" -> "Unloaded"
    [] event = "LOAD_FAILED" -> "LoadFailed"
    [] OTHER -> "Unknown"

\* switch message.Event
EventToState(event) ==
  CASE event = "LOADED" -> "Loaded"
    [] event = "UNLOADED" -> "Unloaded"
    [] event \in {"LOAD_FAILED", "LOAD_FAIL_MEMORY"} -> "LoadFailed"
    [] OTHER -> "Unknown"

\* variant: the error of UpdateModelState is dropped
AgentEventAlwaysAck(updateOk) == "OK"

\* what AgentEvent returns for the result of UpdateModelState
AgentEventResponse(updateOk) == IF updateOk THEN "OK" ELSE "Internal"

NoMessage ==
  [model |-> None, version |-> 0, idx |-> 0, event |-> None, by |-> 0]

\* message: the report (by: the pass whose command it answers); again: the
\* call delivers the previous report once more; prior: the state the store
\* held for the replica when the call came
AgentEvent(message, again) ==
  \E ok \in BOOLEAN :
    LET state == EventToState(message.event) IN
    /\ store' = IF ok
                THEN UpdateModelState(store, message.version, message.idx, state)
                ELSE store
    /\ resp' = [msg |-> message, state |-> state, updated |-> ok,
                code |-> AgentEventResponse(ok), n |-> resp.n + 1,
                again |-> again,
                prior |-> store[message.version][message.idx]]

\* the event kinds a replica answers a command with
Answers(op) ==
  IF op = "LOAD_MODEL"
  THEN {"LOADED", "LOAD_FAILED", "LOAD_FAIL_MEMORY", "UNKNOWN_EVENT"}
  ELSE {"UNLOADED", "UNLOAD_FAILED"}

\* the replica behind handler h answers the oldest command it received
Report(h) ==
  /\ stream[h] # <<>>
  /\ LET cmd == Head(stream[h]) IN
     \E event \in Answers(cmd.op) :
       AgentEvent([model |-> cmd.model, version |-> cmd.version,
                   idx |-> sub[h].key.replicaIdx, event |-> event,
                   by |-> cmd.by], FALSE)
  /\ stream' = [stream EXCEPT ![h] = Tail(@)]
  /\ UNCHANGED <<mutext, agents, replicas, source, sync, sub, env, pvars>>

\* the last report is delivered again
Redeliver ==
  /\ resp.code # None
  /\ AgentEvent(resp.msg, TRUE)
  /\ Input
  /\ UNCHANGED <<mutext, agents, replicas, source, sync, sub, stream, pvars>>

(***************************************************************************)
(* Subscribe (server.go 178-222) and syncMessage (server.go 224-238).      *)
(***************************************************************************)
NoSub == [pc |-> "idle", key |-> None, via |-> None, ret |-> None,
          changed |-> {}, retried |-> 0, scheduled |-> <<>>]

\* s.mutext.Lock() is called: the writer waits for the readers to leave and
\* keeps new readers out
Lock(h) == mutext' = [mutext EXCEPT !.pending = @ \cup {h}]

\* variant: the writer does not wait for the readers to leave
LockedIgnoringReaders(h) ==
  /\ h \in mutext.pending
  /\ mutext' = [mutext EXCEPT !.pending = @ \ {h}]

\* the waiting writer gets the lock once no reader holds it; its critical
\* section is one step, at whose end s.mutext.Unlock() releases the lock
Locked(h) ==
  /\ h \in mutext.pending
  /\ mutext.readers = {}
  /\ mutext' = [mutext EXCEPT !.pending = @ \ {h}]

\* a replica calls Subscribe(request, stream): fin is made, Lock() is called
Subscribe(h, key) ==
  /\ sub[h].pc = "idle"
  /\ \A g \in Handlers : sub[g].pc = "idle" => h <= g
  /\ FirstReplica(key.replicaIdx)
  /\ sub' = [sub EXCEPT ![h].pc = "lock1", ![h].key = key]
  /\ Lock(h)
  /\ Input
  /\ UNCHANGED <<agents, store, replicas, source, sync, stream, resp, pvars>>

\* s.agents[ServerKey{...}] = &AgentSubscriber{finished: fin, stream: stream}
SubRegister(h) ==
  /\ sub[h].pc = "lock1"
  /\ Locked(h)
  /\ agents' = MapPut(agents, sub[h].key, h)
  /\ sub' = [sub EXCEPT ![h].pc = "registered"]
  /\ UNCHANGED <<store, replicas, source, sync, stream, resp, env, pvars>>

\* syncMessage is entered: s.mutext.Lock() is called
SyncMessageLock(h) ==
  /\ sub[h].pc = "registered"
  /\ sub' = [sub EXCEPT ![h].pc = "lock2"]
  /\ Lock(h)
  /\ UNCHANGED <<agents, store, replicas, source, sync, stream, resp, env, pvars>>

\* the error syncMessage returns, nil when both calls succeed
SyncMessageErr(addOk, schedOk) ==
  IF ~addOk THEN "AddServerReplica"
  ELSE IF ~schedOk THEN "ScheduleFailedModels" ELSE "nil"

\* variant: syncMessage returns after AddServerReplica
syncMessageNoRetry(h) ==
  /\ sub[h].pc = "lock2"
  /\ Locked(h)
  /\ \E addOk \in BOOLEAN :
       LET err == SyncMessageErr(addOk, TRUE) IN
       /\ replicas' = IF addOk THEN replicas \cup {sub[h].key} ELSE replicas
       /\ sub' = [sub EXCEPT
            ![h].pc = IF err = "nil" THEN "active" ELSE "returned",
            ![h].ret = err,
            ![h].via = IF err = "nil" THEN None ELSE "syncMessage"]
  /\ UNCHANGED <<agents, store, source, sync, stream, resp, env, pvars>>

\* syncMessage under the lock: s.store.AddServerReplica(request), then
\* s.scheduler.ScheduleFailedModels(); Subscribe returns its error, or goes
\* on to wait on fin and ctx.Done()
syncMessage(h) ==
  /\ sub[h].pc = "lock2"
  /\ Locked(h)
  /\ \E addOk \in BOOLEAN, schedOk \in BOOLEAN :
       LET err == SyncMessageErr(addOk, schedOk)
           idx == sub[h].key.replicaIdx IN
       /\ replicas' = IF addOk THEN replicas \cup {sub[h].key} ELSE replicas
       /\ sub' = [sub EXCEPT
            ![h].pc = IF err = "nil" THEN "active" ELSE "returned",
            ![h].ret = err,
            ![h].via = IF err = "nil" THEN None ELSE "syncMessage",
            ![h].retried = IF addOk THEN @ + 1 ELSE @]
  /\ UNCHANGED <<agents, store, source, sync, stream, resp, env, pvars>>

\* variant: the handler deletes its record when it is closed
SubCloseDeletes(h) ==
  /\ sub[h].pc = "active"
  /\ sub[h].key \in DOMAIN agents
  /\ agents[sub[h].key] = h
  /\ agents' = MapDelete(agents, sub[h].key)
  /\ sub' = [sub EXCEPT ![h].pc = "returned", ![h].ret = "nil", ![h].via = "fin",
                         ![h].retried = 0]
  /\ UNCHANGED <<mutext, store, replicas, source, sync, stream, resp, env, pvars>>

\* case <-fin: a value sent on the finished channel of the record s.agents
\* holds for this handler is received; return nil
SubClose(h) ==
  /\ sub[h].pc = "active"
  /\ sub[h].key \in DOMAIN agents
  /\ agents[sub[h].key] = h
  /\ sub' = [sub EXCEPT ![h].pc = "returned", ![h].ret = "nil", ![h].via = "fin",
                         ![h].retried = 0]
  /\ UNCHANGED <<mutext, agents, store, replicas, source, sync, stream, resp, env, pvars>>

\* case <-ctx.Done(): the client has disconnected; s.mutext.Lock() is called
SubDisconnect(h) ==
  /\ sub[h].pc = "active"
  /\ sub' = [sub EXCEPT ![h].pc = "lock3", ![h].via = "ctx"]
  /\ Lock(h)
  /\ UNCHANGED <<agents, store, replicas, source, sync, stream, resp, env, pvars>>

\* delete(s.agents, ServerKey{...})
SubDelete(h) ==
  /\ sub[h].pc = "lock3"
  /\ Locked(h)
  /\ agents' = MapDelete(agents, sub[h].key)
  /\ sub' = [sub EXCEPT ![h].pc = "remove"]
  /\ UNCHANGED <<store, replicas, source, sync, stream, resp, env, pvars>>

\* store.RemoveServerReplica(serverName, replicaIdx): the replica leaves
\* every version it was assigned to
RemoveServerReplica(st, idx) ==
  [v \in Versions |-> [r \in ReplicaIdxs |-> IF r = idx THEN None ELSE st[v][r]]]

\* the names of the models RemoveServerReplica changed
ModelsChanged(st, idx) ==
  IF \E v \in Versions : st[v][idx] # None THEN ModelNames ELSE {}

\* modelsChanged, err := s.store.RemoveServerReplica(...); an error is logged
\* and leaves modelsChanged empty
SubRemove(h) ==
  /\ sub[h].pc = "remove"
  /\ \E ok \in BOOLEAN, others \in SUBSET OtherModels :
       LET idx == sub[h].key.replicaIdx IN
       /\ ~ok => others = {}
       /\ store' = IF ok THEN RemoveServerReplica(store, idx) ELSE store
       /\ replicas' = IF ok THEN replicas \ {sub[h].key} ELSE replicas
       /\ sub' = [sub EXCEPT
            ![h].pc = "schedule",
            ![h].changed = IF ok THEN ModelsChanged(store, idx) \cup others
                           ELSE {}]
  /\ UNCHANGED <<mutext, agents, source, sync, stream, resp, env, pvars>>

\* variant: the loop ends at the first Schedule call that fails
SubScheduleStopOnError(h) ==
  /\ sub[h].pc = "schedule"
  /\ IF sub[h].changed = {}
     THEN sub' = [sub EXCEPT ![h].pc = "returned", ![h].ret = "nil",
                             ![h].retried = 0, ![h].scheduled = <<>>]
     ELSE \E name \in sub[h].changed, ok \in BOOLEAN :
            IF ok
            THEN sub' = [sub EXCEPT
                   ![h].changed = @ \ {name},
                   ![h].scheduled = Append(@, [name |-> name, ok |-> ok])]
            ELSE sub' = [sub EXCEPT ![h].pc = "returned", ![h].ret = "nil",
                                    ![h].retried = 0, ![h].scheduled = <<>>,
                                    ![h].changed = {}]
  /\ UNCHANGED <<mutext, agents, store, replicas, source, sync, stream, resp, env, pvars>>

\* for _, modelName := range modelsChanged { err = s.scheduler.Schedule(modelName) }
\* (an error is logged, the loop goes on) and return nil; scheduled: the
\* Schedule calls made so far and whether each returned nil
SubSchedule(h) ==
  /\ sub[h].pc = "schedule"
  /\ IF sub[h].changed = {}
     THEN sub' = [sub EXCEPT ![h].pc = "returned", ![h].ret = "nil",
                             ![h].retried = 0, ![h].scheduled = <<>>]
     ELSE \E name \in sub[h].changed, ok \in BOOLEAN :
            sub' = [sub EXCEPT
              ![h].changed = @ \ {name},
              ![h].scheduled = Append(@, [name |-> name, ok |-> ok])]
  /\ UNCHANGED <<mutext, agents, store, replicas, source, sync, stream, resp, env, pvars>>

(***************************************************************************)
(* The scheduler's placement decisions, written to the store.              *)
(***************************************************************************)
SchedulerRequest(ver, idx, state) ==
  /\ FirstReplica(idx)
  /\ store[ver][idx] # state
  /\ store' = UpdateModelState(store, ver, idx, state)
  /\ Input
  /\ UNCHANGED <<mutext, agents, replicas, source, sync, sub, stream, resp, pvars>>

(***************************************************************************)
(* PipelineSubscriber (data-flow): the subscription loop and the handlers  *)
(* of pipeline updates.  A topic name is the sequence of its dot-separated *)
(* segments; the empty string is the empty sequence.                       *)
(***************************************************************************)
MaxUpdates == 2
MaxSteps == 2
retryCountMax == 10

PipelineIds == {"uid1", "uid2"}
PipelineName == "pipe"
PipelineVersions == {1, 2}
Sink == <<"out", "inputs">>
SourceLists ==
  { <<>>,
    << <<"a", "inputs">> >>,
    << <<"a", "t1">> >>,
    << <<"a", "inputs">>, <<"b", "outputs">> >>,
    << <<"a", "t1">>, <<"b", "outputs">> >> }
Steps == {[sources |-> ss, sink |-> Sink] : ss \in SourceLists}
StepLists == UNION {[1..n -> Steps] : n \in 0..MaxSteps}
Metadatas ==
  {[id |-> i, name |-> PipelineName, version |-> v] :
     i \in PipelineIds, v \in PipelineVersions}

\* parseSource: the pair of topic and tensor (None for null) a source names
parseSource(name) ==
  LET last == IF Len(name) < 2 THEN "" ELSE name[Len(name)]
  IN  CASE last = "" -> <<<<>>, None>>
        [] last \in {"inputs", "outputs"} -> <<name, None>>
        [] OTHER -> <<SubSeq(name, 1, Len(name) - 1), last>>

\* parseSources: the sources grouped by topic, each with its non-null tensors
parseSources(sources) ==
  LET parsed == [i \in DOMAIN sources |-> parseSource(sources[i])]
      topics == {parsed[i][1] : i \in DOMAIN sources}
      tensors == [t \in topics |->
                    {parsed[i][2] : i \in {j \in DOMAIN sources : parsed[j][1] = t}}
                      \ {None}]
  IN  IF topics = {} THEN [kind |-> "Empty", topicNames |-> {}, tensors |-> <<>>]
      ELSE IF Cardinality(topics) = 1 /\ \A t \in topics : tensors[t] = {}
        THEN [kind |-> "Single", topicNames |-> topics, tensors |-> <<>>]
      ELSE IF Cardinality(topics) = 1
        THEN [kind |-> "SingleSubset", topicNames |-> topics, tensors |-> tensors]
      ELSE IF \A t \in topics : tensors[t] = {}
        THEN [kind |-> "Many", topicNames |-> topics, tensors |-> <<>>]
      ELSE [kind |-> "ManySubsets", topicNames |-> topics, tensors |-> tensors]

\* transformerFor: type "null" stands for the null it returns for no sources
transformerFor(pipelineName, sources, sink) ==
  LET result == parseSources(sources)
  IN  [type |-> CASE result.kind = "Empty" -> "null"
                  [] result.kind \in {"Single", "SingleSubset"} -> "Chainer"
                  [] OTHER -> "Joiner",
       topicNames |-> result.topicNames,
       tensors |-> result.tensors,
       sink |-> sink,
       pipelineName |-> pipelineName]

\* the Transformer objects steps.mapNotNull { transformerFor(..) } builds in
\* the call-th handled update; an object is known by the call and its step
NewTransformers(call, metadata, steps) ==
  LET made == [i \in DOMAIN steps |->
                 [obj |-> <<call, i>>,
                  is |-> transformerFor(metadata.name, steps[i].sources,
                                        steps[i].sink)]]
      NotNull(t) == t.is.type # "null"
  IN  SelectSeq(made, NotNull)

Objects(transformers) == {transformers[i].obj : i \in DOMAIN transformers}

putIfAbsentOverwrites(m, k, v) == MapPut(m, k, v)

\* ConcurrentHashMap.putIfAbsent
putIfAbsent(m, k, v) == IF k \in DOMAIN m THEN m ELSE MapPut(m, k, v)

NoReport == [op |-> None, uid |-> None, version |-> 0, success |-> FALSE]

makePipelineUpdateEvent(metadata, operation, success) ==
  [op |-> operation, uid |-> metadata.id, version |-> metadata.version,
   success |-> success]

NoUpdate == [op |-> None, metadata |-> None, steps |-> <<>>]

RetryInclusive(n) == n <= retryCountMax

\* the test of the catch block: sleep and subscribe again, or rethrow
Retry(n) == n < retryCountMax

\* How the handling of one update, or the collection of the flow, leaves
\* subscribe: exc is the exception it raised (None: none), update the update
\* handled.  A StatusException is caught and counted; any other escapes.
Leave(exc, update, handled) ==
  /\ retries' = IF exc = "StatusException" THEN retries + 1 ELSE retries
  /\ subscriber' =
       [pc |-> CASE exc = "StatusException" ->
                      IF Retry(retries + 1) THEN "collecting" ELSE "thrown"
                 [] exc = "ExecutionException" -> "failed"
                 [] OTHER -> "collecting",
        calls |-> subscriber.calls + handled,
        attempts |-> IF exc = "StatusException" /\ Retry(retries + 1)
                       THEN subscriber.attempts + 1
                       ELSE subscriber.attempts,
        exc |-> exc,
        update |-> update]

\* subscribe() is called: retries = 0, the first subscribePipelineUpdates
subscribe ==
  /\ subscriber.pc = "idle"
  /\ retries' = 0
  /\ subscriber' = [subscriber EXCEPT !.pc = "collecting", !.attempts = 1]
  /\ UNCHANGED <<pipelines, running, reported, avars>>

\* an update with op Create.  topicsOk: createTopics returns (it rethrows an
\* ExecutionException whose cause is not TopicExistsException); sendOk: the
\* pipelineUpdateEvent call returns (it throws StatusException otherwise)
handleCreate(metadata, steps, topicsOk, sendOk) ==
  /\ subscriber.pc = "collecting"
  /\ subscriber.calls < MaxUpdates
  /\ LET transformers == NewTransformers(subscriber.calls + 1, metadata, steps)
         update == [op |-> "Create", metadata |-> metadata, steps |-> steps]
         status == IF sendOk THEN None ELSE "StatusException"
     IN  IF ~topicsOk
           THEN /\ Leave("ExecutionException", update, 1)
                /\ UNCHANGED <<pipelines, running, reported>>
         ELSE IF Len(transformers) # Len(steps)
           THEN /\ reported' = makePipelineUpdateEvent(metadata, "Create", FALSE)
                /\ Leave(status, update, 1)
                /\ UNCHANGED <<pipelines, running>>
         ELSE IF metadata.id \notin DOMAIN pipelines
           THEN /\ pipelines' =
                     putIfAbsent(pipelines, metadata.id,
                                 [metadata |-> metadata,
                                  transformers |-> transformers])
                /\ running' = running \cup Objects(transformers)
                /\ reported' = makePipelineUpdateEvent(metadata, "Create", TRUE)
                /\ Leave(status, update, 1)
         ELSE /\ pipelines' =
                   putIfAbsent(pipelines, metadata.id,
                               [metadata |-> metadata,
                                transformers |-> transformers])
              /\ sendOk
              /\ Leave(None, update, 1)
              /\ UNCHANGED <<running, reported>>
  /\ UNCHANGED avars

\* an update with op Delete
handleDelete(metadata, sendOk) ==
  /\ subscriber.pc = "collecting"
  /\ subscriber.calls < MaxUpdates
  /\ pipelines' = MapDelete(pipelines, metadata.id)
  /\ running' = IF metadata.id \in DOMAIN pipelines
                  THEN running \ Objects(pipelines[metadata.id].transformers)
                  ELSE running
  /\ reported' = makePipelineUpdateEvent(metadata, "Delete", TRUE)
  /\ Leave(IF sendOk THEN None ELSE "StatusException",
           [op |-> "Delete", metadata |-> metadata, steps |-> <<>>], 1)
  /\ UNCHANGED avars

\* an update with any other op: a warning is logged
Unrecognised(metadata) ==
  /\ subscriber.pc = "collecting"
  /\ subscriber.calls < MaxUpdates
  /\ Leave(None, [op |-> "Unknown", metadata |-> metadata, steps |-> <<>>], 1)
  /\ UNCHANGED <<pipelines, running, reported, avars>>

\* the flow of updates fails with a StatusException
StreamError ==
  /\ subscriber.pc = "collecting"
  /\ Leave("StatusException", NoUpdate, 0)
  /\ UNCHANGED <<pipelines, running, reported, avars>>

\* the flow of updates completes: collect returns and the loop subscribes
\* again, at once and without counting
StreamComplete ==
  /\ subscriber.pc = "collecting"
  /\ subscriber.calls < MaxUpdates
  /\ retries' = retries
  /\ subscriber' = [subscriber EXCEPT !.calls = @ + 1, !.attempts = @ + 1,
                                      !.exc = None, !.update = NoUpdate]
  /\ UNCHANGED <<pipelines, running, reported, avars>>

(***************************************************************************)
(* The system.                                                             *)
(***************************************************************************)
Init ==
  /\ mutext = [readers |-> {}, pending |-> {}]
  /\ agents = <<>>
  /\ store = [v \in Versions |-> [r \in ReplicaIdxs |-> None]]
  /\ replicas = {}
  /\ source = <<>>
  /\ sync = [t \in Tasks |-> NoTask]
  /\ sub = [h \in Handlers |-> NoSub]
  /\ stream = [h \in Handlers |-> <<>>]
  /\ resp = [msg |-> NoMessage, state |-> None, updated |-> FALSE, code |-> None,
             n |-> 0, again |-> FALSE, prior |-> None]
  /\ env = [inputs |-> 0]
  /\ pipelines = <<>>
  /\ retries = 0
  /\ running = {}
  /\ reported = NoReport
  /\ subscriber = [pc |-> "idle", calls |-> 0, attempts |-> 0, exc |-> None,
                   update |-> NoUpdate]

Next ==
  \/ \E name \in EventNames : Publish(name)
  \/ ListenForSyncs
  \/ \E t \in Tasks : SyncGetModel(t)
  \/ \E t \in Tasks : SyncNext(t)
  \/ \E t \in Tasks : SyncSend(t)
  \/ \E t \in Tasks : SyncUpdate(t)
  \/ \E t \in Tasks : SyncReturn(t)
  \/ \E h \in Handlers : Report(h)
  \/ Redeliver
  \/ \E h \in Handlers, key \in Keys : Subscribe(h, key)
  \/ \E h \in Handlers : SubRegister(h)
  \/ \E h \in Handlers : SyncMessageLock(h)
  \/ \E h \in Handlers : syncMessage(h)
  \/ \E h \in Handlers : SubClose(h)
  \/ \E h \in Handlers : SubDisconnect(h)
  \/ \E h \in Handlers : SubDelete(h)
  \/ \E h \in Handlers : SubRemove(h)
  \/ \E h \in Handlers : SubSchedule(h)
  \/ \E v \in Versions, r \in ReplicaIdxs :
       \E state \in {"LoadRequested", "UnloadRequested"} :
         SchedulerRequest(v, r, state)

Spec == Init /\ [][Next]_vars

PipeNext ==
  \/ subscribe
  \/ \E metadata \in Metadatas, steps \in StepLists :
       \E topicsOk, sendOk \in BOOLEAN :
         handleCreate(metadata, steps, topicsOk, sendOk)
  \/ \E metadata \in Metadatas, sendOk \in BOOLEAN : handleDelete(metadata, sendOk)
  \/ \E metadata \in Metadatas : Unrecognised(metadata)
  \/ StreamError
  \/ StreamComplete

PipeSpec == Init /\ [][PipeNext]_vars

(***************************************************************************)
(* Properties of a Sync pass.                                              *)
(***************************************************************************)
\* pass t holds the read lock
Holding(t) == sync[t].pc \in {"loop", "send", "update"}

\* both loops of pass t are over
PassOver(t) == sync[t].pc = "loop" /\ sync[t].todo = {}

\* the entries of pass t's log for one replica of one version
LogOf(t, item) == {i \in DOMAIN sync[t].log : sync[t].log[i].item = item}

\* the registry key of a replica index
KeyOfReplica(idx) == [serverName |-> ServerName, replicaIdx |-> idx]

Connected(idx) == KeyOfReplica(idx) \in DOMAIN agents

LatestVersion == CHOOSE v \in Versions : \A w \in Versions : w <= v

RequestedState(op) ==
  IF op = "LOAD_MODEL" THEN "LoadRequested" ELSE "UnloadRequested"

SentState(op) == IF op = "LOAD_MODEL" THEN "Loading" ELSE "Unloading"

\* C1: a pass calls UpdateModelState (Loading or Unloading) for a replica only
\* after its Send to that replica returned nil; after a failed Send the pass
\* does nothing more for the replica: no state is written, its log holds the
\* failed send alone.
C1_WriteOnlyAfterSend ==
  \A t \in Tasks :
    /\ sync[t].pc = "update" => sync[t].sent
    /\ \A i \in DOMAIN sync[t].log :
         LET e == sync[t].log[i] IN
         /\ e.out \in {"written", "updfail"} => e.sent
         /\ e.out = "written" => e.state = SentState(e.item.op)
         /\ e.out = "sendfail" =>
              ~e.sent /\ e.state = None /\ LogOf(t, e.item) = {i}

\* a pass whose Send failed for a replica that is still in the requested state
C1_Witness ==
  \E t \in Tasks : \E i \in DOMAIN sync[t].log :
    LET e == sync[t].log[i] IN
    /\ e.out = "sendfail"
    /\ store[e.item.ver][e.item.idx] = RequestedState(e.item.op)

\* the command a pass sends for a replica of a version
CommandFor(t, item) ==
  [op |-> item.op, model |-> sync[t].modelName, version |-> item.ver, by |-> t]

\* pass t visits the registered replica of `item` once: one Send on the stream
\* of the replica's record and, if that and the store's update succeed, the
\* written state
VisitedOnce(t, item) ==
  \E i \in DOMAIN sync[t].log :
    LET e == sync[t].log[i] IN
    /\ LogOf(t, item) = {i}
    /\ e.as = agents[KeyOfReplica(item.idx)]
    /\ e.out \in {"written", "updfail", "sendfail"}
    /\ e.sent = (e.out # "sendfail")
    /\ e.state = IF e.out = "written" THEN SentState(item.op) ELSE None

\* the load items of a pass: replicas of the latest version that were in
\* LoadRequested when the pass read the model and that have a record
LoadVisits(t) ==
  {item \in sync[t].items : /\ item.op = "LOAD_MODEL"
                            /\ item.ver = LatestVersion
                            /\ Connected(item.idx)}

\* C2 (as the spec states it): when a pass is over, every registered replica of
\* the latest version that was in LoadRequested is in Loading and one
\* LOAD_MODEL command was sent on its stream.
C2_AllLoadingAfterPass ==
  \A t \in Tasks :
    PassOver(t) =>
      \A item \in LoadVisits(t) :
        /\ store[item.ver][item.idx] = "Loading"
        /\ \E i \in DOMAIN sync[t].log :
             LogOf(t, item) = {i} /\ sync[t].log[i].sent

\* C2 (amended): for every registered replica of the latest version that was
\* in LoadRequested when the pass read the model, the pass calls Send exactly
\* once, on the stream of the replica's record, with a LOAD_MODEL command that
\* carries the model name and that version; when that Send returns nil and
\* UpdateModelState succeeds, the pass writes Loading for the replica, and it
\* writes nothing otherwise.
C2_OneSendThenLoading ==
  [][\A t \in Tasks :
       /\ (sync[t].pc = "send" /\ sync'[t].pc = "update") =>
            LET item == sync[t].cur IN
            /\ Connected(item.idx)
            /\ stream' = [stream EXCEPT ![agents[KeyOfReplica(item.idx)]] =
                            Append(@, CommandFor(t, item))]
       /\ (sync[t].pc = "send" /\ sync'[t].pc = "loop") => stream' = stream
       /\ (sync[t].pc = "update" /\ sync'[t].pc = "loop") =>
            LET item == sync[t].cur
                e == sync'[t].log[Len(sync'[t].log)] IN
            /\ e.item = item
            /\ store' = IF e.out = "written"
                        THEN [store EXCEPT ![item.ver][item.idx] = SentState(item.op)]
                        ELSE store
       /\ PassOver(t)' => \A item \in LoadVisits(t)' : VisitedOnce(t, item)'
    ]_vars

\* a pass is over that sent LOAD_MODEL to a registered replica and wrote
\* Loading for it
C2_Witness ==
  \E t \in Tasks :
    /\ PassOver(t)
    /\ \E item \in LoadVisits(t) : \E i \in LogOf(t, item) :
         /\ sync[t].log[i].out = "written"
         /\ store[item.ver][item.idx] = "Loading"

\* C3: for a replica in LoadRequested or UnloadRequested whose identity has no
\* record in s.agents, the pass skips the iteration: nothing is sent on any
\* stream, the store is not written, the pass goes on with the next replica,
\* and when the pass is over the skip is all it did for that replica.
C3_UnregisteredSkipped ==
  [][\A t \in Tasks :
       /\ (sync[t].pc = "loop" /\ sync'[t].todo # sync[t].todo) =>
            \A item \in sync[t].todo \ sync'[t].todo :
              ~Connected(item.idx) =>
                /\ stream' = stream
                /\ store' = store
                /\ sync'[t].pc = "loop"
                /\ sync'[t].log[Len(sync'[t].log)] =
                     [item |-> item, as |-> 0, sent |-> FALSE, out |-> "skip",
                      state |-> None]
       /\ PassOver(t)' =>
            \A item \in sync'[t].items :
              ~Connected(item.idx)' =>
                \E i \in DOMAIN sync'[t].log :
                  /\ LogOf(t, item)' = {i}
                  /\ sync'[t].log[i].out = "skip"
    ]_vars

\* a pass is over that skipped a replica with no record; the replica is still
\* in the state the scheduler requested
C3_Witness ==
  \E t \in Tasks :
    /\ PassOver(t)
    /\ \E item \in sync[t].items :
         /\ ~Connected(item.idx)
         /\ \E i \in LogOf(t, item) : sync[t].log[i].out = "skip"
         /\ store[item.ver][item.idx] = RequestedState(item.op)

\* the replicas the loops of a pass visit in a store `st`, version by version:
\* loads for the latest version alone, unloads for every version
ExpectedItems(st) ==
  {[op |-> "LOAD_MODEL", ver |-> LatestVersion, idx |-> r] :
     r \in {q \in ReplicaIdxs : st[LatestVersion][q] = "LoadRequested"}}
  \cup
  UNION {{[op |-> "UNLOAD_MODEL", ver |-> v, idx |-> r] :
            r \in {q \in ReplicaIdxs : st[v][q] = "UnloadRequested"}} :
         v \in Versions}

\* C4: a pass visits, and sends LOAD_MODEL for, replicas of the latest version
\* only, whatever the older versions hold in LoadRequested; it visits the
\* replicas in UnloadRequested of every version, and every command on a stream
\* that loads a model names the latest version.
C4_LoadLatestUnloadAll ==
  [][/\ \A t \in Tasks :
          (sync[t].pc = "start" /\ sync'[t].pc = "loop") =>
            /\ sync'[t].items \in {{}, ExpectedItems(store)}
            /\ sync'[t].todo = sync'[t].items
     /\ \A t \in Tasks :
          /\ sync'[t].pc \in {"send", "update"} =>
               /\ sync'[t].cur \in sync'[t].items
               /\ sync'[t].cur.op = "LOAD_MODEL" =>
                    sync'[t].cur.ver = LatestVersion
          /\ \A i \in DOMAIN sync'[t].log : sync'[t].log[i].item \in sync'[t].items
          /\ PassOver(t)' =>
               \A item \in sync'[t].items : LogOf(t, item)' # {}
     /\ \A h \in Handlers : \A i \in DOMAIN stream'[h] :
          stream'[h][i].op = "LOAD_MODEL" => stream'[h][i].version = LatestVersion
    ]_vars

\* a pass is over that unloaded a replica of an older version and left alone
\* a replica of that version in LoadRequested
C4_Witness ==
  \E t \in Tasks :
    /\ PassOver(t)
    /\ \E i \in DOMAIN sync[t].log :
         LET e == sync[t].log[i] IN
         /\ e.item.op = "UNLOAD_MODEL"
         /\ e.item.ver # LatestVersion
         /\ e.out = "written"
         /\ \E r \in ReplicaIdxs :
              /\ store[e.item.ver][r] = "LoadRequested"
              /\ \A item \in sync[t].items : item.idx # r

(***************************************************************************)
(* Properties of AgentEvent and of its interleaving with Sync.             *)
(***************************************************************************)
\* the last AgentEvent call stored a LOADED report that answers the command
\* pass t sent for `item`
LoadedReported(t, item) ==
  /\ resp.updated
  /\ resp.msg.event = "LOADED"
  /\ resp.msg.by = t
  /\ resp.msg.version = item.ver
  /\ resp.msg.idx = item.idx

\* C5: the write of Loading by the pass that sent LOAD_MODEL comes before the
\* write of Loaded by the replica's LOADED report for that command: the pass
\* never writes Loading over the Loaded its own command led to.
C5_LoadingBeforeLoaded ==
  [][\A t \in Tasks :
       (/\ sync[t].pc = "update"
        /\ sync[t].cur.op = "LOAD_MODEL"
        /\ LoadedReported(t, sync[t].cur)
        /\ store[sync[t].cur.ver][sync[t].cur.idx] = "Loaded")
       => store'[sync[t].cur.ver][sync[t].cur.idx] # "Loading"
    ]_vars

CommandStates == {"Loading", "Unloading"}

ReportStates == {"Loaded", "Unloaded", "LoadFailed", "Unknown"}

\* the step is a call of AgentEvent
AgentEventStep == resp'.n # resp.n

\* the step is a call of UpdateModelState by pass t
SyncUpdateStep(t) == sync[t].pc = "update" /\ sync'[t].pc = "loop"

\* C6: a pass writes Loading or Unloading and nothing else; AgentEvent writes
\* Loaded, Unloaded, LoadFailed or Unknown and nothing else; a replica's
\* state becomes Loaded, Unloaded or LoadFailed only in an AgentEvent call,
\* for the replica and version the report names.
C6_DisjointWriters ==
  [][/\ \A t \in Tasks :
          SyncUpdateStep(t) =>
            LET item == sync[t].cur IN
            /\ store' \in {store} \cup
                 {[store EXCEPT ![item.ver][item.idx] = s] : s \in CommandStates}
            /\ resp' = resp
     /\ AgentEventStep =>
          /\ resp'.state \in ReportStates
          /\ store' = IF resp'.updated
                      THEN [store EXCEPT
                              ![resp'.msg.version][resp'.msg.idx] = resp'.state]
                      ELSE store
          /\ sync' = sync
     /\ \A v \in Versions, r \in ReplicaIdxs :
          /\ store'[v][r] # store[v][r] /\ store'[v][r] \in CommandStates =>
               \E t \in Tasks : SyncUpdateStep(t)
          /\ store'[v][r] # store[v][r] /\ store'[v][r] \in ReportStates =>
               /\ AgentEventStep
               /\ resp'.msg.version = v /\ resp'.msg.idx = r
    ]_vars

\* a pass wrote Loading or Unloading for a replica and, while it was still
\* running, a report wrote a report state
C6_Witness ==
  \E t \in Tasks :
    /\ \E i \in DOMAIN sync[t].log :
         sync[t].log[i].out = "written" /\ sync[t].log[i].state \in CommandStates
    /\ resp.updated
    /\ resp.state \in ReportStates
    /\ store[resp.msg.version][resp.msg.idx] = resp.state

\* the state the switch of AgentEvent gives an event kind
StateOfEvent(event) ==
  IF event = "LOADED" THEN "Loaded"
  ELSE IF event = "UNLOADED" THEN "Unloaded"
  ELSE IF event = "LOAD_FAILED" \/ event = "LOAD_FAIL_MEMORY" THEN "LoadFailed"
  ELSE "Unknown"

\* C7: every AgentEvent call maps the event kind of the report to a state:
\* LOADED to Loaded, UNLOADED to Unloaded, LOAD_FAILED and LOAD_FAIL_MEMORY to
\* LoadFailed, any other kind to Unknown; that state is the one passed to
\* UpdateModelState, for the other kinds too.
C7_EventKindMapping ==
  [][AgentEventStep =>
       /\ resp'.msg.event \in EventKinds
       /\ resp'.state = StateOfEvent(resp'.msg.event)
       /\ resp'.updated =>
            store'[resp'.msg.version][resp'.msg.idx] = StateOfEvent(resp'.msg.event)
    ]_vars

\* a report of a kind the switch has no case for was stored as Unknown and
\* acknowledged
C7_Witness ==
  /\ resp.msg.event \in {"UNLOAD_FAILED", "UNKNOWN_EVENT"}
  /\ resp.updated
  /\ resp.code = "OK"
  /\ store[resp.msg.version][resp.msg.idx] = "Unknown"

\* C8: AgentEvent returns an Internal error exactly when UpdateModelState
\* failed, and the acknowledgement with no error exactly when it succeeded.
C8_InternalIffUpdateFails ==
  resp.n > 0 =>
    /\ resp.code \in {"OK", "Internal"}
    /\ resp.code = "Internal" <=> ~resp.updated
    /\ resp.code = "OK" <=> resp.updated

\* an AgentEvent call whose UpdateModelState failed returned Internal
C8_Witness == resp.n > 0 /\ ~resp.updated /\ resp.code = "Internal"

\* C9: an AgentEvent call with a LOADED report whose update the store accepts
\* leaves the replica at Loaded and every other replica as it was, from
\* Loading as from any state; delivered again to a replica at Loaded, the
\* report changes nothing, whether the store accepts the update or not.
C9_LoadedIdempotent ==
  [][(AgentEventStep /\ resp'.msg.event = "LOADED") =>
       LET v == resp'.msg.version
           r == resp'.msg.idx IN
       /\ resp'.prior = store[v][r]
       /\ resp'.updated => store' = [store EXCEPT ![v][r] = "Loaded"]
       /\ ~resp'.updated => store' = store
       /\ store[v][r] = "Loaded" => store' = store
    ]_vars

\* a pass wrote Loading for a replica, the replica's LOADED report moved it
\* to Loaded, and the same report, delivered again, found it at Loaded and
\* left it there
C9_Witness ==
  /\ resp.again
  /\ resp.updated
  /\ resp.msg.event = "LOADED"
  /\ resp.prior = "Loaded"
  /\ store[resp.msg.version][resp.msg.idx] = "Loaded"
  /\ \E t \in Tasks : \E i \in DOMAIN sync[t].log :
       LET e == sync[t].log[i] IN
       /\ resp.msg.by = t
       /\ e.item = [op |-> "LOAD_MODEL", ver |-> resp.msg.version,
                    idx |-> resp.msg.idx]
       /\ e.out = "written"

(***************************************************************************)
(* Properties of Subscribe.                                                *)
(***************************************************************************)
\* the commands the store holds for replica idx: a load of the latest version
\* in LoadRequested, an unload of any version in UnloadRequested
PendingCommands(st, idx) == {item \in ExpectedItems(st) : item.idx = idx}

\* handler h leaves syncMessage with no error and goes on to wait
InitialSyncDone(h) == sub[h].pc = "lock2" /\ sub'[h].pc = "active"

\* C10: when Subscribe has installed the record and its initial
\* synchronisation returns, every command the store holds for the replica is
\* on the replica's stream.
C10_InitialFullSync ==
  [][\A h \in Handlers :
       InitialSyncDone(h) =>
         \A item \in PendingCommands(store, sub[h].key.replicaIdx) :
           \E i \in DOMAIN stream'[h] :
             /\ stream'[h][i].op = item.op
             /\ stream'[h][i].version = item.ver
    ]_vars

(***************************************************************************)
(* Properties of the end of a connection.                                  *)
(***************************************************************************)
\* the registry without the record of a key
WithoutKey(m, k) == [x \in DOMAIN m \ {k} |-> m[x]]

\* the names of the Schedule calls handler h has made
ScheduledNames(h) == {sub[h].scheduled[i].name : i \in DOMAIN sub[h].scheduled}

\* handler h has made at most one Schedule call per name, none of them for a
\* name it still has to go through
ScheduledOnce(h) ==
  /\ \A i, j \in DOMAIN sub[h].scheduled :
       sub[h].scheduled[i].name = sub[h].scheduled[j].name => i = j
  /\ ScheduledNames(h) \cap sub[h].changed = {}

\* C11: after ctx.Done() the handler deletes the record of its key from
\* s.agents, then calls RemoveServerReplica, then calls Schedule once for
\* each name of modelsChanged, going on after a call that failed, and returns
\* only when every name had its call; a model the replica held is among the
\* names and gets exactly one call.
C11_DisconnectCascade ==
  [][\A h \in Handlers :
       /\ sub'[h].pc = "remove" /\ sub[h].pc # "remove" =>
            /\ sub[h].pc = "lock3" /\ sub[h].via = "ctx"
            /\ agents' = WithoutKey(agents, sub[h].key)
            /\ store' = store
            /\ sub'[h].scheduled = <<>>
       /\ sub'[h].pc = "schedule" /\ sub[h].pc # "schedule" =>
            /\ sub[h].pc = "remove"
            /\ agents' = agents
            /\ sub'[h].scheduled = <<>>
            /\ store' # store =>
                 /\ \A v \in Versions : store'[v][sub[h].key.replicaIdx] = None
                 /\ "iris" \in sub'[h].changed
       /\ sub[h].pc = "schedule" /\ sub'[h] # sub[h] =>
            /\ agents' = agents /\ store' = store
            /\ IF sub[h].changed = {}
               THEN sub'[h].pc = "returned" /\ sub'[h].ret = "nil"
               ELSE /\ sub'[h].pc = "schedule"
                    /\ \E name \in sub[h].changed, ok \in BOOLEAN :
                         /\ sub'[h].changed = sub[h].changed \ {name}
                         /\ sub'[h].scheduled =
                              Append(sub[h].scheduled, [name |-> name, ok |-> ok])
       /\ sub'[h].pc = "schedule" => ScheduledOnce(h)'
    ]_vars

\* a replica that held iris has disconnected: its handler has been through
\* two affected models, the Schedule call for the first failed, the call for
\* the second was made, and iris had one call
C11_Witness ==
  \E h \in Handlers :
    /\ sub[h].pc = "schedule"
    /\ sub[h].via = "ctx"
    /\ sub[h].changed = {}
    /\ Len(sub[h].scheduled) = 2
    /\ ~sub[h].scheduled[1].ok
    /\ Cardinality({i \in DOMAIN sub[h].scheduled :
                      sub[h].scheduled[i].name = "iris"}) = 1

\* C12: a handler that receives the close signal returns nil and does nothing
\* else: the registry, the store and the server replicas are as they were,
\* no lock is taken, no Schedule call is made; a handler that was closed is
\* never in the steps of the disconnect.
C12_CloseNoFurtherAction ==
  [][\A h \in Handlers :
       /\ (sub[h].pc = "active" /\ sub'[h].pc = "returned") =>
            /\ sub'[h].via = "fin" /\ sub'[h].ret = "nil"
            /\ sub'[h].scheduled = <<>> /\ sub'[h].changed = {}
            /\ agents' = agents
            /\ store' = store
            /\ replicas' = replicas
            /\ mutext' = mutext
       /\ sub'[h].via = "fin" => sub'[h].pc = "returned"
    ]_vars

\* a handler was closed: it has returned, its record is still in the registry
\* and its replica is still a server replica of the store
C12_Witness ==
  \E h \in Handlers :
    /\ sub[h].pc = "returned"
    /\ sub[h].via = "fin"
    /\ sub[h].key \in DOMAIN agents
    /\ agents[sub[h].key] = h
    /\ sub[h].key \in replicas

\* C13: once a handler has returned, by disconnect, by close or with the
\* error of syncMessage, s.agents holds no record that handler inserted.
C13_NoRecordAfterReturn ==
  \A h \in Handlers :
    sub[h].pc = "returned" =>
      ~(sub[h].key \in DOMAIN agents /\ agents[sub[h].key] = h)

\* C14: Subscribe returns an error only when AddServerReplica failed: a
\* handler that returned an error never called ScheduleFailedModels, and a
\* handler that went on to wait returns nil.
C14_ErrorIffAddServerReplicaFails ==
  \A h \in Handlers :
    sub[h].pc = "returned" =>
      /\ sub[h].ret # "nil" => sub[h].via = "syncMessage" /\ sub[h].retried = 0
      /\ sub[h].via # "syncMessage" => sub[h].ret = "nil"

(***************************************************************************)
(* Further properties of a Sync pass.                                      *)
(***************************************************************************)
\* the store holds no request for a command: no replica of the latest
\* version is in LoadRequested, no replica of any version in UnloadRequested
Converged(st) ==
  /\ \A r \in ReplicaIdxs : st[LatestVersion][r] # "LoadRequested"
  /\ \A v \in Versions, r \in ReplicaIdxs : st[v][r] # "UnloadRequested"

\* pass t takes a step
SyncStep(t) == sync'[t] # sync[t]

\* C15: a pass that reads a model with no replica in LoadRequested (latest
\* version) or UnloadRequested (any version) visits no replica: it calls no
\* Send and no UpdateModelState, its only step after reading the model is its
\* return, which leaves the store and the streams as they are.
C15_ConvergedPassIsNoOp ==
  [][\A t \in Tasks :
       /\ (sync[t].pc = "start" /\ SyncStep(t) /\ Converged(store)) =>
            /\ sync'[t].items = {} /\ sync'[t].todo = {}
            /\ sync'[t].pc = "loop"
            /\ store' = store /\ stream' = stream
       /\ (sync[t].pc = "loop" /\ sync[t].items = {} /\ SyncStep(t)) =>
            /\ sync[t].log = <<>>
            /\ sync'[t].pc = "done"
            /\ store' = store /\ stream' = stream
    ]_vars

\* a first pass has sent a command and returned; a second pass for the same
\* model found nothing requested and is over, having done nothing
C15_Witness ==
  \E t, u \in Tasks :
    /\ sync[u].pc = "done"
    /\ PassOver(t)
    /\ sync[t].modelName \in ModelNames
    /\ sync[t].items = {} /\ sync[t].log = <<>>
    /\ Converged(store)
    /\ \E v \in Versions, r \in ReplicaIdxs : store[v][r] \in {"Loading", "Unloading"}

(***************************************************************************)
(* Properties of the close signal.                                         *)
(***************************************************************************)
\* the finished channel of handler h can be reached: the record of its key
\* in s.agents is the one it inserted
Closable(h) == sub[h].key \in DOMAIN agents /\ agents[sub[h].key] = h

\* C16: every handler that waits on its close and disconnect signals can be
\* sent the close signal, which makes that handler and no other return.
C16_EveryOpenHandlerClosable ==
  \A h \in Handlers : sub[h].pc = "active" => Closable(h)

(***************************************************************************)
(* Failures inside a Sync pass.                                            *)
(***************************************************************************)
\* the replicas pass t is done with
LoggedItems(t) == {sync[t].log[i].item : i \in DOMAIN sync[t].log}

\* the replica pass t is sending to or updating
CurrentItem(t) ==
  IF sync[t].pc \in {"send", "update"} THEN {sync[t].cur} ELSE {}

\* C17: whatever failed for the replicas a pass is done with, every replica
\* the pass has to visit (LoadRequested of the latest version, UnloadRequested
\* of every version) is still to be visited, being visited, or was visited:
\* the pass drops none and is over only when it has been through all of them.
C17_FailuresIsolated ==
  \A t \in Tasks :
    Holding(t) =>
      /\ sync[t].items = sync[t].todo \cup CurrentItem(t) \cup LoggedItems(t)
      /\ sync[t].todo \cap (CurrentItem(t) \cup LoggedItems(t)) = {}
      /\ PassOver(t) => LoggedItems(t) = sync[t].items

\* a pass is over in which a Send or an UpdateModelState failed for one
\* replica and the command of a later replica was sent and its state written
C17_Witness ==
  \E t \in Tasks :
    /\ PassOver(t)
    /\ \E i, j \in DOMAIN sync[t].log :
         /\ i < j
         /\ sync[t].log[i].out \in {"sendfail", "updfail"}
         /\ sync[t].log[j].out = "written"

\* pass t was started for a name the store holds no model for
StaleEvent(t) ==
  sync[t].modelName # None /\ sync[t].modelName \notin ModelNames

\* C18: a pass for a name the store holds no model for visits no replica: it
\* never calls Send or UpdateModelState and all it does is return.
C18_MissingModelReturns ==
  \A t \in Tasks :
    StaleEvent(t) =>
      /\ sync[t].pc \in {"start", "loop"}
      /\ sync[t].items = {} /\ sync[t].todo = {}
      /\ sync[t].cur = None
      /\ sync[t].log = <<>>

\* a pass for an unknown name is over, with commands requested in the store,
\* and the event that came after it was given a pass of its own
C18_Witness ==
  \E t, u \in Tasks :
    /\ t < u
    /\ StaleEvent(t) /\ PassOver(t)
    /\ ~Converged(store)
    /\ sync[u].pc # "idle"
    /\ sync[u].modelName \in ModelNames

(***************************************************************************)
(* Properties of the lock s.mutext.                                        *)
(***************************************************************************)
\* the passes between RLock and RUnlock
Readers == {t \in Tasks : Holding(t)}

\* C19: s.agents is inserted into or deleted from only by a handler that has
\* called Lock() and got the lock, at a moment when no pass is between its
\* RLock and its RUnlock; the passes between RLock and RUnlock are the
\* readers of the lock, and there may be several.
C19_RegistryUnderExclusiveLock ==
  [][/\ agents' # agents =>
          /\ Readers = {}
          /\ mutext.readers = {}
          /\ \E h \in mutext.pending :
               /\ mutext'.pending = mutext.pending \ {h}
               /\ sub[h].pc \in {"lock1", "lock3"}
               /\ sub'[h].pc \in {"registered", "remove"}
               /\ \A k \in (DOMAIN agents \cup DOMAIN agents') \ {sub[h].key} :
                    k \in DOMAIN agents /\ k \in DOMAIN agents' /\ agents'[k] = agents[k]
     /\ mutext'.readers = Readers'
     /\ \A t \in Tasks : Holding(t) /\ Holding(t)' => agents' = agents
    ]_vars

\* two passes hold the lock in shared mode while a replica is registered and
\* a handler waits for the exclusive lock
C19_Witness ==
  /\ Cardinality(Readers) = 2
  /\ mutext.readers = Readers
  /\ agents # <<>>
  /\ mutext.pending # {}

(***************************************************************************)
(* Progress of the passes.  Every goroutine that can take a step takes it; *)
(* the inputs of the environment, the close and disconnect signals and the *)
(* reports of the replicas may never come; a Send on a stream whose peer   *)
(* is connected may block for ever, a Send on a stream whose context is    *)
(* done returns.                                                           *)
(***************************************************************************)
\* the context of handler h's stream is done, or the handler has returned
StreamDone(h) == sub[h].pc \in {"idle", "returned", "lock3", "remove", "schedule"}

\* the Send of pass t returns because the stream is gone
SendOnDoneStream(t) == SyncSend(t) /\ StreamDone(sync[t].as)

Fairness ==
  /\ WF_vars(ListenForSyncs)
  /\ \A t \in Tasks :
       /\ WF_vars(SyncGetModel(t))
       /\ WF_vars(SyncNext(t))
       /\ WF_vars(SendOnDoneStream(t))
       /\ WF_vars(SyncUpdate(t))
       /\ WF_vars(SyncReturn(t))
  /\ \A h \in Handlers :
       /\ WF_vars(SubRegister(h))
       /\ WF_vars(SyncMessageLock(h))
       /\ WF_vars(syncMessage(h))
       /\ WF_vars(SubDelete(h))
       /\ WF_vars(SubRemove(h))
       /\ WF_vars(SubSchedule(h))

LiveSpec == Init /\ [][Next]_vars /\ Fairness

\* C20: whatever Send blocks, every pass that was started returns or reaches
\* a Send of its own: a pass that sends to no blocked stream completes, also
\* while a handler waits for the exclusive lock.
C20_StuckSendStallsNoOtherPass ==
  \A t \in Tasks :
    (sync[t].pc = "start") ~> (sync[t].pc \in {"send", "done"})

(***************************************************************************)
(* Properties of the dispatcher.                                           *)
(***************************************************************************)
\* pass t has been started and has not returned
Running(t) == sync[t].pc \in {"start", "loop", "send", "update"}

\* C21: each event taken from s.source starts one pass, for the model name
\* of that event, and a pass is started by nothing else; every event in the
\* channel is taken, whatever the passes started before it are doing.
C21_OnePassPerEvent ==
  /\ [][source' # source /\ Len(source') <= Len(source) =>
          /\ source' = Tail(source)
          /\ \E t \in Tasks :
               /\ sync[t].pc = "idle"
               /\ sync' = [sync EXCEPT ![t].pc = "start",
                                       ![t].modelName = Head(source)]
       ]_vars
  /\ [][\A t \in Tasks :
          sync[t].pc = "idle" /\ sync'[t].pc # "idle" =>
            /\ source # <<>>
            /\ source' = Tail(source)
            /\ sync'[t].pc = "start"
            /\ sync'[t].modelName = Head(source)
       ]_vars
  /\ (source # <<>>) ~> (source = <<>>)

\* the pass of an earlier event is in its Send, or waits for the read lock
\* behind a writer, and the pass of a later event has been started
C21_Witness ==
  \E t, u \in Tasks :
    /\ t < u
    /\ \/ sync[t].pc = "send"
       \/ sync[t].pc = "start" /\ mutext.pending # {}
    /\ Running(u)
    /\ source = <<>>

(***************************************************************************)
(* Further properties of Subscribe.                                        *)
(***************************************************************************)
\* handler h leaves syncMessage
SyncMessageReturns(h) ==
  sub[h].pc = "lock2" /\ sub'[h].pc \in {"active", "returned"}

\* C22: a handler calls ScheduleFailedModels in syncMessage and nowhere else,
\* once, when AddServerReplica has succeeded and the replica is in the store,
\* and not at all when AddServerReplica failed; a handler that waits for its
\* signals, or is in the steps of the disconnect, has made exactly one call.
C22_ScheduleFailedModelsOnce ==
  [][\A h \in Handlers :
       /\ SyncMessageReturns(h) =>
            /\ sub[h].retried = 0
            /\ IF sub'[h].ret = "AddServerReplica"
               THEN sub'[h].retried = 0 /\ sub'[h].pc = "returned"
               ELSE sub'[h].retried = 1 /\ sub[h].key \in replicas'
       /\ sub'[h].retried # sub[h].retried /\ sub'[h].retried # 0 =>
            SyncMessageReturns(h)
       /\ sub'[h].pc \in {"idle", "lock1", "registered", "lock2"} =>
            sub'[h].retried = 0
       /\ sub'[h].pc \in {"active", "lock3", "remove", "schedule"} =>
            sub'[h].retried = 1
    ]_vars

\* a handler waits for its signals: its replica is in the store and it has
\* called ScheduleFailedModels once
C22_Witness ==
  \E h \in Handlers :
    /\ sub[h].pc = "active"
    /\ sub[h].retried = 1
    /\ sub[h].key \in replicas

\* another handler holds the record of handler h's identity and is open
Replaced(h) ==
  /\ sub[h].key \in DOMAIN agents
  /\ agents[sub[h].key] # h
  /\ StreamOpen(agents[sub[h].key])

\* another handler of handler h's identity waits for its signals, its
\* replica added to the store
Reconnected(h) ==
  \E g \in Handlers \ {h} :
    /\ sub[g].pc = "active"
    /\ sub[g].key = sub[h].key
    /\ sub[g].key \in replicas

\* C23: when a newer Subscribe under the same identity has replaced the
\* record, the disconnect of the older handler leaves the newer record in
\* s.agents and leaves the replica the newer Subscribe added in the store.
C23_OldDisconnectSparesNewConnection ==
  [][\A h \in Handlers :
       /\ (sub[h].pc = "lock3" /\ sub'[h].pc = "remove" /\ Replaced(h)) =>
            agents' = agents
       /\ (sub[h].pc = "remove" /\ sub'[h].pc = "schedule" /\ Reconnected(h)) =>
            /\ replicas' = replicas
            /\ store' = store
    ]_vars

(***************************************************************************)
(* Concurrent passes.                                                      *)
(***************************************************************************)
\* pass t is in a call of Send on the stream of handler h
Sending(t, h) == sync[t].pc = "send" /\ sync[t].as = h

\* C24: no two passes are in Send on the same stream at the same time.
C24_OneSendPerStream ==
  \A h \in Handlers : \A t, u \in Tasks :
    Sending(t, h) /\ Sending(u, h) => t = u

\* C25: while a replica is in LoadRequested, its stream does not hold two
\* LOAD_MODEL commands for that version.
C25_NoDuplicateCommand ==
  \A h \in Handlers : \A i, j \in DOMAIN stream[h] :
    (/\ i # j
     /\ stream[h][i].op = "LOAD_MODEL"
     /\ stream[h][j].op = "LOAD_MODEL"
     /\ stream[h][i].version = stream[h][j].version)
    => store[stream[h][i].version][sub[h].key.replicaIdx] # "LoadRequested"

(***************************************************************************)
(* Properties of PipelineSubscriber.                                       *)
(***************************************************************************)
\* this step handled an update with the given op
Handled(op) ==
  /\ subscriber'.calls = subscriber.calls + 1
  /\ subscriber'.update.op = op

\* some step has no sources, so that transformerFor yields no transformer
NoTransformerStep(steps) == \E i \in DOMAIN steps : steps[i].sources = <<>>

FailedCreate(metadata) ==
  [op |-> "Create", uid |-> metadata.id, version |-> metadata.version,
   success |-> FALSE]

\* C26 as stated: transformers are started only by the Create that registers
\* the pipeline's id; a Create for a registered id changes and starts
\* nothing; a Create with a step that yields no transformer registers
\* nothing, starts nothing and reports a failed Create.
C26_CreateRegistersOnce ==
  [][/\ running' \ running # {} =>
          /\ Handled("Create")
          /\ subscriber'.update.metadata.id \notin DOMAIN pipelines
          /\ subscriber'.update.metadata.id \in DOMAIN pipelines'
          /\ running' \ running =
               Objects(pipelines'[subscriber'.update.metadata.id].transformers)
     /\ Handled("Create") /\ subscriber'.update.metadata.id \in DOMAIN pipelines =>
          /\ pipelines' = pipelines
          /\ running' = running
     /\ Handled("Create") /\ NoTransformerStep(subscriber'.update.steps) =>
          /\ pipelines' = pipelines
          /\ running' = running
          /\ reported' = FailedCreate(subscriber'.update.metadata)
    ]_vars

\* C26, amended: as above, but the failed Create is reported only when
\* createTopics returns; when it throws, nothing is registered, started or
\* reported.
C26_CreateRegistersOnceIfTopics ==
  [][/\ running' \ running # {} =>
          /\ Handled("Create")
          /\ subscriber'.update.metadata.id \notin DOMAIN pipelines
          /\ subscriber'.update.metadata.id \in DOMAIN pipelines'
          /\ running' \ running =
               Objects(pipelines'[subscriber'.update.metadata.id].transformers)
     /\ Handled("Create") /\ subscriber'.update.metadata.id \in DOMAIN pipelines =>
          /\ pipelines' = pipelines
          /\ running' = running
     /\ Handled("Create") /\ NoTransformerStep(subscriber'.update.steps) =>
          /\ pipelines' = pipelines
          /\ running' = running
          /\ IF subscriber'.exc = "ExecutionException"
               THEN reported' = reported
               ELSE reported' = FailedCreate(subscriber'.update.metadata)
    ]_vars

\* a Create for a registered id, with another version, was handled and
\* the registered pipeline still runs with its own version
C26_Witness ==
  /\ subscriber.update.op = "Create"
  /\ subscriber.exc = None
  /\ ~NoTransformerStep(subscriber.update.steps)
  /\ subscriber.update.metadata.id \in DOMAIN pipelines
  /\ pipelines[subscriber.update.metadata.id].metadata.version
       # subscriber.update.metadata.version
  /\ Objects(pipelines[subscriber.update.metadata.id].transformers) # {}
  /\ Objects(pipelines[subscriber.update.metadata.id].transformers) \subseteq running

\* C27 as stated: each StatusException is counted; after each of the first
\* retryCountMax - 1 subscribe subscribes again, the next one is rethrown;
\* nothing else changes the counter, and subscribe ends only by the rethrow.
C27_RetriesThenRethrow ==
  [][subscriber.pc = "collecting" =>
       /\ subscriber'.exc = "StatusException" =>
            /\ retries' = retries + 1
            /\ retries < retryCountMax - 1 =>
                 /\ subscriber'.pc = "collecting"
                 /\ subscriber'.attempts = subscriber.attempts + 1
            /\ retries = retryCountMax - 1 => subscriber'.pc = "thrown"
       /\ subscriber'.exc # "StatusException" => retries' = retries
       /\ subscriber'.pc # "collecting" =>
            /\ subscriber'.pc = "thrown"
            /\ subscriber'.exc = "StatusException"
            /\ retries' = retryCountMax
    ]_vars

\* C27, amended: as above, but subscribe ends by the rethrow or by an
\* exception other than StatusException raised while an update is handled,
\* which is neither caught nor counted.
C27_RetriesThenRethrowOrEscape ==
  [][/\ subscriber.pc = "collecting" =>
          /\ subscriber'.exc = "StatusException" =>
               /\ retries' = retries + 1
               /\ retries < retryCountMax - 1 =>
                    /\ subscriber'.pc = "collecting"
                    /\ subscriber'.attempts = subscriber.attempts + 1
               /\ retries = retryCountMax - 1 => subscriber'.pc = "thrown"
          /\ subscriber'.exc # "StatusException" => retries' = retries
          /\ subscriber'.pc # "collecting" =>
               \/ /\ subscriber'.pc = "thrown"
                  /\ subscriber'.exc = "StatusException"
                  /\ retries' = retryCountMax
               \/ /\ subscriber'.pc = "failed"
                  /\ subscriber'.exc = "ExecutionException"
                  /\ Handled("Create")
     /\ subscriber.pc \in {"thrown", "failed"} => UNCHANGED pvars
    ]_vars

\* the retryCountMax-th StatusException was rethrown, with updates handled
\* and a pipeline registered in between
C27_Witness ==
  /\ subscriber.pc = "thrown"
  /\ retries = retryCountMax
  /\ subscriber.calls > 0
  /\ pipelines # <<>>

====
